---- MODULE Spec2Model ----
(***************************************************************************)
(* Model of the request/authentication pipeline of hotmart_python.Hotmart  *)
(* (src/hotmart_python/hotmart.py): the token cache (_is_token_expired,    *)
(* _fetch_new_token, _get_token), the dispatcher (_make_request), the      *)
(* orchestrator (_request_with_token) and the normalizer                   *)
(* (_handle_response).  One client instance, called sequentially.          *)
(***************************************************************************)
EXTENDS Integers, Sequences, FiniteSets, TLC

\* ---------------------------------------------------------------- bounds
MaxTime == 3      \* the clock runs over 0..MaxTime
MaxLen == 2       \* longest list carried by a response body
MaxExpiresIn == 1 \* longest lifetime the auth server grants a token

\* ---------------------------------------------------------------- values
None == "None"                       \* Python None where a string is expected
Tokens == {"t1", "t2"}               \* access tokens the auth server may issue
Elems == {"a", "b"}                  \* records carried inside lists
Keys == {"items", "lessons", "page_info"}

NoneTime == [some |-> FALSE, v |-> 0]     \* Python None where a time is expected
SomeTime(t) == [some |-> TRUE, v |-> t]

SeqsUpTo(S, n) == UNION {[1..k -> S] : k \in 0..n}
Lists == SeqsUpTo(Elems, MaxLen)

\* response.json() of a body that is None on the Python side
JsonNone == [kind |-> "none", keys |-> {}, items |-> <<>>, lessons |-> <<>>, l |-> <<>>]

\* decoded JSON bodies of resource endpoints: a mapping or a list
DictBodies ==
    {[kind |-> "dict", keys |-> ks, items |-> it, lessons |-> le, l |-> <<>>] :
        <<ks, it, le>> \in
            {t \in (SUBSET Keys) \X Lists \X Lists :
                /\ ("items" \notin t[1] => t[2] = <<>>)
                /\ ("lessons" \notin t[1] => t[3] = <<>>)}}
ListBodies ==
    {[kind |-> "list", keys |-> {}, items |-> <<>>, lessons |-> <<>>, l |-> x] : x \in Lists}
Bodies == DictBodies \cup ListBodies

\* decoded JSON bodies of the auth endpoint: a mapping that may or may not
\* carry "access_token" (possibly null) and "expires_in"
AuthBodies ==
    {[kind |-> "dict", has_access_token |-> ht, access_token |-> tk,
      has_expires_in |-> he, expires_in |-> ei] :
        <<ht, tk, he, ei>> \in
            {t \in BOOLEAN \X (Tokens \cup {None}) \X BOOLEAN \X (0..MaxExpiresIn) :
                /\ (~t[1] => t[2] = None)
                /\ (t[3] => t[4] >= 1)
                /\ (~t[3] => t[4] = 0)}}

\* requests.codes.ok
CodesOk == 200
\* status codes the remote side answers with
Statuses == {200, 201, 304, 401, 403, 404, 422, 500, 503}
IsSuccess(status) == status >= 200 /\ status <= 299

\* what the transport hands back: a failure of the transport itself, or an
\* HTTP response with a status and (for success statuses) a decodable body
TransportFailure == [failed |-> TRUE, status |-> 0, body |-> JsonNone]
HttpResponses(statuses, bodies) ==
    {[failed |-> FALSE, status |-> s, body |-> b] :
        <<s, b>> \in {t \in statuses \X (bodies \cup {JsonNone}) :
                        IsSuccess(t[1]) <=> t[2] # JsonNone}}
ResourceResponses == {TransportFailure} \cup HttpResponses(Statuses, Bodies)
\* the resource answers the pipeline is driven with: an envelope or a list
\* under a success status, and three failing statuses
EnvelopeBody ==
    [kind |-> "dict", keys |-> {"items", "page_info"}, items |-> <<"a">>,
     lessons |-> <<>>, l |-> <<>>]
ListBody == [kind |-> "list", keys |-> {}, items |-> <<>>, lessons |-> <<>>, l |-> <<"a">>]
PipelineResponses == {TransportFailure} \cup HttpResponses({200, 201, 401, 422, 500}, {EnvelopeBody, ListBody})
\* the auth endpoint's answers: every body under 200, one token-carrying body
\* under the other success status
AuthResponses ==
    {TransportFailure}
        \cup HttpResponses(Statuses \ {201}, AuthBodies)
        \cup HttpResponses({201}, {b \in AuthBodies : b.access_token = "t1" /\ b.expires_in = 1})

\* ---------------------------------------------------------------- state
VARIABLES
    token_cache,            \* self.token_cache
    token_expires_at,       \* self.token_expires_at
    token_found_in_cache,   \* self.token_found_in_cache
    sandbox,                \* self.sandbox
    now,                    \* time.time()
    server_expiry,          \* instant at which the auth server expires the cached token
    dispatch,               \* the HTTP requests issued by the last call, in order
    last,                   \* the last call: operation, arguments and outcome
    norm,                   \* an application of _handle_response: arguments and result
    sent,                   \* an application of _make_request: response and result
    thread,                 \* threads sharing the client: position and locals of each
    auth_fetches            \* auth requests the threads have issued

vars == <<token_cache, token_expires_at, token_found_in_cache, sandbox, now,
          server_expiry, dispatch, last, norm, sent, thread, auth_fetches>>
tokenVars == <<token_cache, token_expires_at, token_found_in_cache>>

\* ---------------------------------------------------------------- _handle_response
\* Python truthiness of the enhance argument (True, False or None)
EnhanceValues == {"True", "False", None}
Truthy(enhance) == enhance = "True"

IsDict(response) == response.kind = "dict"
IsListMut(response) == FALSE
IsList(response) == response.kind = "list"

\* the three ways _handle_response ends
ReturnList(l) == [kind |-> "list", val |-> l, wrapped |-> JsonNone, err |-> "none"]
ReturnWrapped(response) == [kind |-> "wrapped", val |-> <<>>, wrapped |-> response, err |-> "none"]
RaiseValueError == [kind |-> "raise", val |-> <<>>, wrapped |-> JsonNone, err |-> "ValueError"]
NoResult == [kind |-> "none", val |-> <<>>, wrapped |-> JsonNone, err |-> "none"]

\* response["items"] / response["lessons"] raise KeyError when the key is
\* absent, and the KeyError handler returns [response]
HandleResponse(response, enhance) ==
    IF Truthy(enhance)
    THEN IF IsDict(response) /\ "items" \notin response.keys
         THEN ReturnWrapped(response)
         ELSE IF IsDict(response) /\ Len(response.items) > 0
         THEN ReturnList(response.items)
         ELSE IF IsDict(response) /\ "lessons" \notin response.keys
         THEN ReturnWrapped(response)
         ELSE IF IsDict(response) /\ Len(response.lessons) > 0
         THEN ReturnList(response.lessons)
         ELSE IF IsList(response)
         THEN ReturnList(response.l)
         ELSE RaiseValueError
    ELSE IF IsDict(response)
         THEN ReturnWrapped(response)
         ELSE IF IsList(response)
         THEN ReturnList(response.l)
         ELSE RaiseValueError

\* ---------------------------------------------------------------- _make_request
\* response.raise_for_status(): HTTPError for 4xx and 5xx, nothing otherwise
RaiseForStatus(status) == status >= 400 /\ status < 600

NoHint == "none"
\* the diagnostic logged by the HTTPError handler before it re-raises
ErrorHintMut(status, sb) == NoHint
ErrorHint(status, sb) ==
    IF status = 401 \/ status = 403
    THEN IF sb THEN "Perhaps the credentials aren't for Sandbox Mode?"
               ELSE "Perhaps the credentials are for Sandbox Mode?"
    ELSE IF status = 422
    THEN "This usually happens when the request is missing body parameters."
    ELSE IF status = 500 /\ sb
    THEN "This happens with some endpoints in the Sandbox Mode."
    ELSE NoHint

\* outcome "return" with the decoded body or with None, or outcome "raise"
\* with the exception class, the status the exception carries and the hint
MakeRequestMut(resp, sb) ==
    IF resp.failed
    THEN [outcome |-> "raise", value |-> JsonNone, err |-> "ConnectionError",
          status |-> 0, hint |-> NoHint, attempts |-> 1]
    ELSE IF resp.status = CodesOk
    THEN [outcome |-> "return", value |-> resp.body, err |-> "none",
          status |-> resp.status, hint |-> NoHint, attempts |-> 1]
    ELSE IF resp.status = 500 /\ sb
    THEN [outcome |-> "return", value |-> JsonNone, err |-> "none",
          status |-> resp.status, hint |-> ErrorHint(resp.status, sb), attempts |-> 2]
    ELSE IF RaiseForStatus(resp.status)
    THEN [outcome |-> "raise", value |-> JsonNone, err |-> "HTTPError",
          status |-> resp.status, hint |-> ErrorHint(resp.status, sb), attempts |-> 1]
    ELSE [outcome |-> "return", value |-> JsonNone, err |-> "none",
          status |-> resp.status, hint |-> NoHint, attempts |-> 1]
\* attempts counts the calls of method(url, ...): the body has no loop, so
\* the transport is called once on every path
MakeRequest(resp, sb) ==
    IF resp.failed
    THEN [outcome |-> "raise", value |-> JsonNone, err |-> "ConnectionError",
          status |-> 0, hint |-> NoHint, attempts |-> 1]
    ELSE IF resp.status = CodesOk
    THEN [outcome |-> "return", value |-> resp.body, err |-> "none",
          status |-> resp.status, hint |-> NoHint, attempts |-> 1]
    ELSE IF RaiseForStatus(resp.status)
    THEN [outcome |-> "raise", value |-> JsonNone, err |-> "HTTPError",
          status |-> resp.status, hint |-> ErrorHint(resp.status, sb), attempts |-> 1]
    ELSE [outcome |-> "return", value |-> JsonNone, err |-> "none",
          status |-> resp.status, hint |-> NoHint, attempts |-> 1]

\* one entry of the log of HTTP requests a call issued
Issued(target, resp, sb) == [target |-> target, resp |-> resp, result |-> MakeRequest(resp, sb)]

\* ---------------------------------------------------------------- token cache
IsTokenExpiredMut(expires_at, t) == expires_at.v < t
IsTokenExpired(expires_at, t) == expires_at.some /\ expires_at.v < t

\* response["access_token"] on the value _make_request returned
FetchNewTokenMut(resp, sb) ==
    LET r == MakeRequest(resp, sb) IN
    IF r.outcome = "raise" \/ r.value.kind = "none" \/ ~r.value.has_access_token
    THEN [outcome |-> "return", token |-> None, err |-> "none"]
    ELSE [outcome |-> "return", token |-> r.value.access_token, err |-> "none"]
FetchNewToken(resp, sb) ==
    LET r == MakeRequest(resp, sb) IN
    IF r.outcome = "raise"
    THEN [outcome |-> "raise", token |-> None, err |-> r.err]
    ELSE IF r.value.kind = "none"
    THEN [outcome |-> "raise", token |-> None, err |-> "TypeError"]
    ELSE IF ~r.value.has_access_token
    THEN [outcome |-> "raise", token |-> None, err |-> "KeyError"]
    ELSE [outcome |-> "return", token |-> r.value.access_token, err |-> "none"]

\* the cache check that opens _get_token
CacheHitMut(cache, expires_at, t) == FALSE
CacheHit(cache, expires_at, t) == ~IsTokenExpired(expires_at, t) /\ cache # None

\* _get_token on the given token state, the auth endpoint answering resp if
\* asked: the outcome, the next token state and the requests issued
GetTokenResult(cache, expires_at, found, t, resp, sb) ==
    IF CacheHit(cache, expires_at, t)
    THEN [outcome |-> "return", ret |-> cache, err |-> "none", hit |-> TRUE,
          stored |-> FALSE, cache |-> cache, found |-> TRUE, issued |-> <<>>]
    ELSE LET f == FetchNewToken(resp, sb) IN
         IF f.outcome = "raise"
         THEN [outcome |-> "raise", ret |-> None, err |-> f.err, hit |-> FALSE,
               stored |-> FALSE, cache |-> cache, found |-> found,
               issued |-> <<Issued("auth", resp, sb)>>]
         ELSE IF f.token # None
         THEN [outcome |-> "return", ret |-> f.token, err |-> "none", hit |-> FALSE,
               stored |-> TRUE, cache |-> f.token, found |-> FALSE,
               issued |-> <<Issued("auth", resp, sb)>>]
         ELSE [outcome |-> "return", ret |-> None, err |-> "none", hit |-> FALSE,
               stored |-> FALSE, cache |-> cache, found |-> found,
               issued |-> <<Issued("auth", resp, sb)>>]

\* the instant at which the auth server expires the token the cache holds
\* after the call: that of a newly stored token, else the one it had
ServerExpiry(g, resp, t, old) ==
    IF g.stored
    THEN IF resp.body.has_expires_in THEN SomeTime(t + resp.body.expires_in) ELSE NoneTime
    ELSE old

\* ---------------------------------------------------------------- _request_with_token
\* verbs callers pass, in the spellings they pass them
Methods == {"GET", "post", "delete", "put"}
\* str.upper()
Upper(method) ==
    CASE method = "GET" -> "GET"
      [] method = "post" -> "POST"
      [] method = "delete" -> "DELETE"
      [] method = "put" -> "PUT"
\* the keys of method_mapping
MethodMapping == {"GET", "POST", "PATCH", "DELETE"}
IsSupported(method) == Upper(method) \in MethodMapping

UnsupportedMsg == "Unsupported method"
MalformedMsg == "Response must be a dictionary or a list of dictionaries."

\* the headers of the resource request; f"Bearer {token}" formats None as
\* the text None
Headers(token) == [content_type |-> "application/json", authorization |-> <<"Bearer", token>>]
NoHeaders == [content_type |-> "", authorization |-> <<>>]

\* _request_with_token after _get_token returned g: the header it builds, the
\* verb check, the resource call and the normalisation of its result
RequestResult(g, method, enhance, resp, sb) ==
    IF g.outcome = "raise"
    THEN [outcome |-> "raise", err |-> g.err, msg |-> "", bearer |-> None,
          headers |-> NoHeaders, result |-> NoResult, issued |-> g.issued]
    ELSE IF ~IsSupported(method)
    THEN [outcome |-> "raise", err |-> "ValueError", msg |-> UnsupportedMsg,
          bearer |-> g.ret, headers |-> Headers(g.ret), result |-> NoResult,
          issued |-> g.issued]
    ELSE LET r == MakeRequest(resp, sb)
             issued == g.issued \o <<Issued("resource", resp, sb)>>
         IN  IF r.outcome = "raise"
             THEN [outcome |-> "raise", err |-> r.err, msg |-> "", bearer |-> g.ret,
                   headers |-> Headers(g.ret), result |-> NoResult, issued |-> issued]
             ELSE LET h == HandleResponse(r.value, enhance) IN
                  IF h.kind = "raise"
                  THEN [outcome |-> "raise", err |-> h.err, msg |-> MalformedMsg,
                        bearer |-> g.ret, headers |-> Headers(g.ret), result |-> h,
                        issued |-> issued]
                  ELSE [outcome |-> "return", err |-> "none", msg |-> "",
                        bearer |-> g.ret, headers |-> Headers(g.ret), result |-> h,
                        issued |-> issued]

\* ---------------------------------------------------------------- behaviour
NoCall ==
    [op |-> "none", method |-> None, enhance |-> None, hit |-> FALSE,
     outcome |-> "none", err |-> "none", msg |-> "", ret |-> None, bearer |-> None,
     headers |-> NoHeaders, result |-> NoResult]
NoNorm == [response |-> JsonNone, enhance |-> None, result |-> NoResult, done |-> FALSE]
NoSent == [resp |-> TransportFailure, result |-> MakeRequest(TransportFailure, FALSE),
           done |-> FALSE]

\* the threads that share the client, and a thread that has not called yet
Threads == {"A", "B"}
Idle ==
    [pc |-> "idle", missed |-> FALSE, outcome |-> "none", token |-> None,
     err |-> "none", expiry |-> NoneTime, ret |-> None]

\* Hotmart.__init__
Construct ==
    /\ token_cache = None
    /\ token_expires_at = NoneTime
    /\ token_found_in_cache = FALSE
    /\ sandbox \in BOOLEAN
    /\ now = 0
    /\ server_expiry = NoneTime
    /\ dispatch = <<>>
    /\ last = NoCall
    /\ thread = [t \in Threads |-> Idle]
    /\ auth_fetches = 0

Init == Construct /\ norm = NoNorm /\ sent = NoSent

\* time passes between two calls
Tick ==
    /\ now < MaxTime
    /\ now' = now + 1
    /\ UNCHANGED <<token_cache, token_expires_at, token_found_in_cache, sandbox,
                   server_expiry, dispatch, last, norm, sent, thread, auth_fetches>>

\* what the auth endpoint can answer to a call made now: it is asked on a
\* cache miss only
AuthAnswers ==
    IF CacheHit(token_cache, token_expires_at, now)
    THEN {TransportFailure} ELSE AuthResponses

\* what the resource endpoint can answer to a call made now: it is asked
\* only when the token was obtained and the verb is supported
ResourceAnswers(method, authResp) ==
    IF /\ GetTokenResult(token_cache, token_expires_at, token_found_in_cache,
                         now, authResp, sandbox).outcome = "return"
       /\ IsSupported(method)
    THEN PipelineResponses ELSE {TransportFailure}

\* a call of _get_token; resp is what the auth endpoint answers if asked
GetToken(resp) ==
    \E g \in {GetTokenResult(token_cache, token_expires_at, token_found_in_cache,
                             now, resp, sandbox)} :
        /\ token_cache' = g.cache
        /\ token_found_in_cache' = g.found
        /\ server_expiry' = ServerExpiry(g, resp, now, server_expiry)
        /\ dispatch' = g.issued
        /\ last' = [op |-> "_get_token", method |-> None, enhance |-> None,
                    hit |-> g.hit, outcome |-> g.outcome, err |-> g.err, msg |-> "",
                    ret |-> g.ret, bearer |-> None, headers |-> NoHeaders,
                    result |-> NoResult]
        /\ UNCHANGED <<token_expires_at, sandbox, now, norm, sent, thread, auth_fetches>>

\* a call of _request_with_token; authResp and resResp are what the auth
\* endpoint and the resource endpoint answer if asked
RequestWithToken(method, enhance, authResp, resResp) ==
    \E g \in {GetTokenResult(token_cache, token_expires_at, token_found_in_cache,
                             now, authResp, sandbox)} :
    \E q \in {RequestResult(g, method, enhance, resResp, sandbox)} :
        /\ token_cache' = g.cache
        /\ token_found_in_cache' = g.found
        /\ server_expiry' = ServerExpiry(g, authResp, now, server_expiry)
        /\ dispatch' = q.issued
        /\ last' = [op |-> "_request_with_token", method |-> method, enhance |-> enhance,
                    hit |-> g.hit, outcome |-> q.outcome, err |-> q.err, msg |-> q.msg,
                    ret |-> None, bearer |-> q.bearer, headers |-> q.headers,
                    result |-> q.result]
        /\ UNCHANGED <<token_expires_at, sandbox, now, norm, sent, thread, auth_fetches>>

Next ==
    \/ Tick
    \/ \E resp \in AuthAnswers : GetToken(resp)
    \/ \E method \in Methods, enhance \in {"True", None}, authResp \in AuthAnswers :
          \E resResp \in ResourceAnswers(method, authResp) :
              RequestWithToken(method, enhance, authResp, resResp)

Spec == Init /\ [][Next]_vars

\* ---------------------------------------------------------------- _handle_response alone
InitNorm ==
    /\ Construct
    /\ sent = NoSent
    /\ norm \in {[response |-> b, enhance |-> e, result |-> NoResult, done |-> FALSE] :
                    b \in Bodies \cup {JsonNone}, e \in EnhanceValues}

Normalize ==
    /\ ~norm.done
    /\ norm' = [norm EXCEPT !.result = HandleResponse(norm.response, norm.enhance),
                            !.done = TRUE]
    /\ UNCHANGED <<token_cache, token_expires_at, token_found_in_cache, sandbox, now,
                   server_expiry, dispatch, last, sent, thread, auth_fetches>>

NextNorm == Normalize
SpecNorm == InitNorm /\ [][NextNorm]_vars

\* ---------------------------------------------------------------- _make_request alone
InitSent ==
    /\ Construct
    /\ norm = NoNorm
    /\ sent \in {[resp |-> r, result |-> MakeRequest(TransportFailure, FALSE),
                  done |-> FALSE] : r \in ResourceResponses}

Send ==
    /\ ~sent.done
    /\ sent' = [sent EXCEPT !.result = MakeRequest(sent.resp, sandbox), !.done = TRUE]
    /\ UNCHANGED <<token_cache, token_expires_at, token_found_in_cache, sandbox, now,
                   server_expiry, dispatch, last, norm, thread, auth_fetches>>

NextSent == Send
SpecSent == InitSent /\ [][NextSent]_vars

\* ---------------------------------------------------------------- _get_token by two threads
\* the fetch a thread makes after its cache check missed: it does not look at
\* the cache again
FetchStepMut(cache, expires_at, t, resp, sb) ==
    IF CacheHit(cache, expires_at, t)
    THEN [issued |-> 0, outcome |-> "return", token |-> cache, err |-> "none"]
    ELSE LET f == FetchNewToken(resp, sb) IN
         [issued |-> 1, outcome |-> f.outcome, token |-> f.token, err |-> f.err]
FetchStep(cache, expires_at, t, resp, sb) ==
    LET f == FetchNewToken(resp, sb) IN
    [issued |-> 1, outcome |-> f.outcome, token |-> f.token, err |-> f.err]

\* thread t calls _get_token
Call(t) ==
    /\ thread[t].pc = "idle"
    /\ thread' = [thread EXCEPT ![t].pc = "check"]
    /\ UNCHANGED <<token_cache, token_expires_at, token_found_in_cache, sandbox, now,
                   server_expiry, dispatch, last, norm, sent, auth_fetches>>

\* the condition of the if that opens _get_token
Check(t) ==
    /\ thread[t].pc = "check"
    /\ thread' = [thread EXCEPT
                    ![t].pc = IF CacheHit(token_cache, token_expires_at, now)
                              THEN "hit" ELSE "fetch",
                    ![t].missed = ~CacheHit(token_cache, token_expires_at, now)]
    /\ UNCHANGED <<token_cache, token_expires_at, token_found_in_cache, sandbox, now,
                   server_expiry, dispatch, last, norm, sent, auth_fetches>>

\* the body of the if: the flag is set and token_cache is read and returned
HitReturn(t) ==
    /\ thread[t].pc = "hit"
    /\ token_found_in_cache' = TRUE
    /\ thread' = [thread EXCEPT ![t].pc = "done", ![t].outcome = "return",
                                ![t].ret = token_cache]
    /\ UNCHANGED <<token_cache, token_expires_at, sandbox, now,
                   server_expiry, dispatch, last, norm, sent, auth_fetches>>

\* token = self._fetch_new_token(), the auth endpoint answering resp
Fetch(t, resp) ==
    /\ thread[t].pc = "fetch"
    /\ \E f \in {FetchStep(token_cache, token_expires_at, now, resp, sandbox)} :
          /\ auth_fetches' = auth_fetches + f.issued
          /\ thread' = [thread EXCEPT
                          ![t].pc = IF f.outcome = "raise" THEN "done" ELSE "store",
                          ![t].outcome = f.outcome,
                          ![t].token = f.token,
                          ![t].err = f.err,
                          ![t].expiry = IF f.outcome = "return" /\ f.issued = 1
                                           /\ resp.body.has_expires_in
                                        THEN SomeTime(now + resp.body.expires_in)
                                        ELSE NoneTime]
    /\ UNCHANGED <<token_cache, token_expires_at, token_found_in_cache, sandbox, now,
                   server_expiry, dispatch, last, norm, sent>>

\* the store of a token that is not None, and the return
Store(t) ==
    /\ thread[t].pc = "store"
    /\ IF thread[t].token # None
       THEN /\ token_cache' = thread[t].token
            /\ token_found_in_cache' = FALSE
            /\ server_expiry' = thread[t].expiry
       ELSE UNCHANGED <<token_cache, token_found_in_cache, server_expiry>>
    /\ thread' = [thread EXCEPT ![t].pc = "done", ![t].ret = thread[t].token]
    /\ UNCHANGED <<token_expires_at, sandbox, now, dispatch, last, norm, sent,
                   auth_fetches>>

NextConc ==
    \/ \E t \in Threads : Call(t)
    \/ \E t \in Threads : Check(t)
    \/ \E t \in Threads : HitReturn(t)
    \/ \E t \in Threads, resp \in AuthResponses : Fetch(t, resp)
    \/ \E t \in Threads : Store(t)

SpecConc == Init /\ [][NextConc]_vars

TypeOK ==
    /\ token_cache \in Tokens \cup {None}
    /\ token_expires_at = NoneTime
    /\ token_found_in_cache \in BOOLEAN
    /\ now \in 0..MaxTime
    /\ Len(dispatch) <= 2

\* ---------------------------------------------------------------- properties
\* the step is a call of the named operation (time stands still during a call)
IsCallOf(op) == now' = now /\ last'.op = op
\* the auth fetches among the requests d
AuthIssued(d) == {i \in DOMAIN d : d[i].target = "auth"}
\* the cached token is before / past the instant the auth server expires it
BeforeExpiry == server_expiry.some /\ now < server_expiry.v
PastExpiry == server_expiry.some /\ server_expiry.v < now

\* C1: on a freshly constructed client the first _get_token call performs
\* exactly one auth fetch, and every later _get_token call made before the
\* token's expiry performs no auth fetch and returns the cached token, which
\* stays in the cache.
C1_FirstFetchThenCacheHit ==
    [][ /\ (last.op = "none" /\ IsCallOf("_get_token")
              => Cardinality(AuthIssued(dispatch')) = 1)
        /\ (token_cache # None /\ BeforeExpiry /\ IsCallOf("_get_token")
              => /\ dispatch' = <<>>
                 /\ last'.outcome = "return"
                 /\ last'.ret = token_cache
                 /\ token_cache' = token_cache) ]_vars

\* a _get_token call answered from the cache before the token's expiry
C1_Witness ==
    /\ last.op = "_get_token" /\ last.hit /\ last.outcome = "return"
    /\ last.ret = token_cache /\ token_cache \in Tokens
    /\ dispatch = <<>>
    /\ BeforeExpiry

\* C2: whenever the cached token is past its expiry instant, the next
\* _get_token call performs exactly one fresh auth fetch and, when the fetch
\* yields a token, replaces token_cache with it.
C2_ExpiredTokenRefetched ==
    [][ token_cache # None /\ PastExpiry /\ IsCallOf("_get_token")
          => /\ Cardinality(AuthIssued(dispatch')) = 1
             /\ (last'.outcome = "return" /\ last'.ret # None
                    => token_cache' = last'.ret) ]_vars

\* C3: a token returned by _get_token is not expired at the moment of
\* return: its expiry instant is strictly later than the current time.
C3_ReturnedTokenNotExpired ==
    [][ (/\ IsCallOf("_get_token")
         /\ last'.outcome = "return" /\ last'.ret # None
         /\ server_expiry'.some)
          => server_expiry'.v > now' ]_vars

\* C4: _request_with_token with a verb outside {GET, POST, PATCH, DELETE}
\* fails with the unsupported-method error and issues no HTTP request, neither
\* the auth fetch nor the resource call, whatever the state of the token cache.
C4_UnsupportedVerbNoRequest ==
    last.op = "_request_with_token" /\ ~IsSupported(last.method)
        => /\ last.outcome = "raise"
           /\ last.err = "ValueError" /\ last.msg = UnsupportedMsg
           /\ dispatch = <<>>

\* C5: for every HTTP response whose status is a success code (any 2xx),
\* _make_request returns the decoded response body.
C5_SuccessReturnsBody ==
    sent.done /\ ~sent.resp.failed /\ IsSuccess(sent.resp.status)
        => /\ sent.result.outcome = "return"
           /\ sent.result.value = sent.resp.body

\* the three kinds of failing status the dispatcher is said to tell apart
AuthStatus(status) == status = 401 \/ status = 403
ValidationStatus(status) == status = 422
ServerStatus(status) == status >= 500 /\ status <= 599
StatusKind(status) ==
    IF AuthStatus(status) THEN "auth"
    ELSE IF ValidationStatus(status) THEN "validation"
    ELSE IF ServerStatus(status) THEN "server"
    ELSE "other"
Classified == {r \in ResourceResponses : ~r.failed /\ StatusKind(r.status) # "other"}

AuthFailed(d) ==
    /\ Len(d) >= 1
    /\ d[1].target = "auth"
    /\ (d[1].resp.failed \/ ~IsSuccess(d[1].resp.status))

C8_NoExpiryIsMalformed ==
    (/\ Len(dispatch) >= 1
     /\ dispatch[1].target = "auth"
     /\ ~dispatch[1].resp.failed /\ IsSuccess(dispatch[1].resp.status)
     /\ dispatch[1].resp.body.has_access_token
     /\ dispatch[1].resp.body.access_token # None
     /\ ~dispatch[1].resp.body.has_expires_in)
        => /\ last.outcome = "raise"
           /\ last.err = "AuthResponseMalformed"
           /\ token_cache # dispatch[1].resp.body.access_token

\* C9: with enhance=true, for every mapping body that contains an "items"
\* field or a "lessons" field, empty or not, _handle_response returns exactly
\* that field's contents.
C9_EnvelopeYieldsCollection ==
    (/\ norm.done /\ Truthy(norm.enhance)
     /\ norm.response.kind = "dict"
     /\ norm.response.keys \cap {"items", "lessons"} # {})
        => /\ norm.result.kind = "list"
           /\ \/ "items" \in norm.response.keys /\ norm.result.val = norm.response.items
              \/ "lessons" \in norm.response.keys /\ norm.result.val = norm.response.lessons

\* C10: for every list body, _handle_response returns the input list
\* unchanged (same elements, same order), for enhance=true and enhance=false.
C10_ListPassesThrough ==
    norm.done /\ norm.response.kind = "list" /\ norm.enhance \in {"True", "False"}
        => /\ norm.result.kind = "list"
           /\ norm.result.val = norm.response.l

\* a two-element list of distinct records passed through with enhance=true
C10_Witness ==
    /\ norm.done /\ norm.response.kind = "list" /\ norm.enhance = "True"
    /\ Len(norm.response.l) = 2 /\ norm.response.l[1] # norm.response.l[2]
    /\ norm.result.kind = "list" /\ norm.result.val = norm.response.l

\* the response is a failure: the transport failed, or the status is one
\* raise_for_status() raises for
IsFailure(resp) == resp.failed \/ (resp.status >= 400 /\ resp.status <= 599)

ResourceIssued(d) == {i \in DOMAIN d : d[i].target = "resource"}

\* C12: every resource request sent by _request_with_token carries
\* Content-Type: application/json and Authorization: Bearer <t>, where t is
\* an access token the auth endpoint issued, the one token_cache holds; none
\* is sent with an absent (None) token.
C12_ResourceRequestCarriesToken ==
    last.op = "_request_with_token" /\ ResourceIssued(dispatch) # {}
        => /\ last.headers.content_type = "application/json"
           /\ last.headers.authorization = <<"Bearer", token_cache>>
           /\ token_cache \in Tokens

\* the threads whose cache check missed and that are past their fetch
FetchedAfterMiss == {t \in Threads : thread[t].missed /\ thread[t].pc \in {"store", "done"}}

\* C13: the check-then-fetch sequence of _get_token is not atomic: a thread
\* whose cache check missed performs its own auth fetch whatever another
\* thread stored in between, so two threads that both pass the check on one
\* empty cache perform two auth fetches.
C13_EveryMissFetches ==
    /\ auth_fetches = Cardinality(FetchedAfterMiss)
    /\ ((\A t \in Threads : thread[t].missed /\ thread[t].pc = "done")
           => auth_fetches = Cardinality(Threads))

\* both threads passed the check on the empty cache and each fetched a token,
\* although the first store had filled the cache
C13_Witness ==
    /\ \A t \in Threads :
          /\ thread[t].pc = "done" /\ thread[t].missed
          /\ thread[t].outcome = "return" /\ thread[t].ret \in Tokens
    /\ auth_fetches = 2
    /\ token_cache \in Tokens

\* C14: with enhance=true a mapping body never makes _handle_response fail:
\* whenever it does not yield the contents of a recognized collection field
\* ("items" or "lessons" absent or empty), the result is [body].
C14_MappingNeverFails ==
    norm.done /\ Truthy(norm.enhance) /\ norm.response.kind = "dict"
        => /\ norm.result.kind \in {"list", "wrapped"}
           /\ (norm.result.kind = "wrapped" => norm.result.wrapped = norm.response)

\* C15: no operation assigns token_expires_at after construction, so it is
\* None in every reachable state; consequently, once token_cache holds a
\* fetched token, no later call performs an auth fetch or replaces the token,
\* however much time passes.
C15_TokenNeverExpires ==
    /\ [](token_expires_at = NoneTime)
    /\ [][ token_cache # None /\ now' = now /\ last'.op # "none"
              => /\ AuthIssued(dispatch') = {}
                 /\ last'.hit
                 /\ token_cache' = token_cache ]_vars

\* a call answered from the cache after the auth server expired the token
C15_Witness ==
    /\ token_expires_at = NoneTime
    /\ token_cache \in Tokens
    /\ PastExpiry
    /\ last.op # "none" /\ last.hit
    /\ AuthIssued(dispatch) = {}

====
